---- MODULE Spec2Model ----
(***************************************************************************)
(* Dynamic reframing engine of NBAShortener.                               *)
(*                                                                         *)
(*   modules/ball_tracker.py  PlayerTracker: detect_ball_position,         *)
(*                            detect_players, find_player_with_ball,       *)
(*                            track_player_with_ball, get_crop_region      *)
(*   modules/clipper.py       VideoClipper._format_with_ball_tracking and  *)
(*                            its per-frame callback make_frame            *)
(*                                                                         *)
(* Conventions.  Python's None is the empty tuple <<>>; a point is <<x,y>>,*)
(* a box <<x,y,w,h>>.  Python's a // b is a \div b (both floor); int(v) of *)
(* a float is truncation toward zero (Trunc).  Times are kept as a number  *)
(* of frame periods (time * fps), fps being fixed during one call.         *)
(***************************************************************************)
EXTENDS Integers, Sequences, FiniteSets, TLC

VARIABLES
    args,              \* the arguments of a pending call of get_crop_region, or None
    frame,             \* the frame at hand (the detectors' input; in the loop, what cap.read() gave)
    call,              \* the latest call of a method and what it returned
    \* ---- VideoClipper._format_with_ball_tracking (clipper.py:175-243)
    original_size,     \* clip.size = <<original_width, original_height>>
    player_positions,  \* the list track_player_with_ball returned
    frame_counter,     \* frame_counter[0]
    \* ---- PlayerTracker.track_player_with_ball (ball_tracker.py:167-274)
    pc,                \* "idle" | "loop" | "done" (returned) | "raised" (exception left the method)
    fps, start_time, duration,
    detection_interval,
    frame_num, tracker, tracked_bbox, last_position,
    position_history, positions,
    raw_log,           \* history variable: every player_pos appended at line 260, in order
    frames_in_range,   \* history variable: frames read whose time passed the check of line 208
    detected,          \* history variable: line 215 ran on the latest frame read
    update             \* <<success, bbox>> of line 240 on the latest frame, None when line 240 did not run

vars == <<args, frame, call, original_size, player_positions, frame_counter,
          pc, fps, start_time, duration, detection_interval, frame_num, tracker,
          tracked_bbox, last_position, position_history, positions,
          raw_log, frames_in_range, detected, update>>

renderVars == <<original_size, player_positions, frame_counter>>
trackVars  == <<pc, fps, start_time, duration, detection_interval, frame_num, tracker,
                tracked_bbox, last_position, position_history, positions,
                raw_log, frames_in_range, detected, update>>

None == <<>>

Max(a, b) == IF a >= b THEN a ELSE b
Min(a, b) == IF a <= b THEN a ELSE b
Abs(a) == IF a >= 0 THEN a ELSE -a

\* int(num / den) for den > 0: truncation toward zero
Trunc(num, den) == IF num >= 0 THEN num \div den ELSE -((-num) \div den)

(***************************************************************************)
(* Program constants                                                       *)
(***************************************************************************)
min_area       == 50       \* area < 50
max_area       == 50000    \* area > 50000
hog_max_width  == 1280     \* width > 1280, scale = 1280.0 / width
match_radius   == 200      \* min_dist < 200
bbox_size      == 150
history_size   == 7
shorts_width   == 1080
shorts_height  == 1920

(***************************************************************************)
(* PlayerTracker.get_crop_region  (ball_tracker.py:276-298)                *)
(* offset_y = int(crop_height * 0.1) equals crop_height // 10 for every    *)
(* crop_height in 0..5000 in IEEE double arithmetic.                       *)
(***************************************************************************)
get_crop_region_unclamped_low(player_x, player_y, frame_width, frame_height, crop_width, crop_height) ==
    LET offset_y == Trunc(crop_height, 10)
        crop_x == Min(player_x - crop_width \div 2, frame_width - crop_width)
        crop_y == Min(player_y - crop_height \div 2 - offset_y, frame_height - crop_height)
    IN  <<crop_x, crop_y>>

\* lines 293-296 with offset_y left out of crop_y
get_crop_region_no_bias(player_x, player_y, frame_width, frame_height, crop_width, crop_height) ==
    <<Max(0, Min(player_x - crop_width \div 2, frame_width - crop_width)),
      Max(0, Min(player_y - crop_height \div 2, frame_height - crop_height))>>

get_crop_region(player_x, player_y, frame_width, frame_height, crop_width, crop_height) ==
    LET offset_y == Trunc(crop_height, 10)
        crop_x == Max(0, Min(player_x - crop_width \div 2, frame_width - crop_width))
        crop_y == Max(0, Min(player_y - crop_height \div 2 - offset_y, frame_height - crop_height))
    IN  <<crop_x, crop_y>>

(***************************************************************************)
(* A frame, as far as the detectors are concerned:                         *)
(*   width, height  frame.shape                                            *)
(*   contours       what cv2.findContours returns for the orange mask,     *)
(*                  each [area |-> cv2.contourArea, m00, m10, m01 |->      *)
(*                  cv2.moments]                                           *)
(*   boxes          what hog.detectMultiScale returns on the (possibly     *)
(*                  downscaled) frame, each <<x, y, w, h>>                 *)
(***************************************************************************)

\* max(contours, key=cv2.contourArea): the first contour of maximal area
largest_contour(contours) ==
    LET i == CHOOSE k \in 1..Len(contours) :
                 /\ \A j \in 1..Len(contours) : contours[j].area <= contours[k].area
                 /\ \A j \in 1..(k - 1) : contours[j].area < contours[k].area
    IN  contours[i]

\* the area test of line 54
area_rejected_no_upper(area) == area < min_area

area_rejected(area) == area < min_area \/ area > max_area

(***************************************************************************)
(* PlayerTracker.detect_ball_position  (ball_tracker.py:29-64), from the   *)
(* contours on.                                                            *)
(***************************************************************************)
detect_ball_position(contours) ==
    IF contours = <<>> THEN None
    ELSE LET c == largest_contour(contours)
         IN  IF area_rejected(c.area) THEN None
             ELSE IF c.m00 = 0 THEN None
             ELSE <<Trunc(c.m10, c.m00), Trunc(c.m01, c.m00)>>

\* (boxes / scale).astype(int) with scale = 1280.0 / width: v * width / 1280,
\* truncated toward zero
rescale_box(box, width) ==
    [k \in 1..4 |-> Trunc(box[k] * width, hog_max_width)]

\* h > w * 0.8; in IEEE double arithmetic this is 5h > 4w for all 0 < w, h < 3000
aspect_ok(box) == 5 * box[4] > 4 * box[3]

RECURSIVE filter_boxes(_)
filter_boxes(boxes) ==
    IF boxes = <<>> THEN <<>>
    ELSE LET rest == filter_boxes(Tail(boxes))
         IN  IF aspect_ok(Head(boxes)) THEN <<Head(boxes)>> \o rest ELSE rest

\* the aspect filter applied to the detector's boxes, the survivors rescaled after
detect_players_filter_first(width, height, boxes) ==
    LET kept == filter_boxes(boxes)
    IN  IF width > hog_max_width
        THEN [k \in 1..Len(kept) |-> rescale_box(kept[k], width)]
        ELSE kept

(***************************************************************************)
(* PlayerTracker.detect_players  (ball_tracker.py:66-107), from the        *)
(* detector's boxes on.                                                    *)
(***************************************************************************)
detect_players(width, height, boxes) ==
    LET scaled == IF width > hog_max_width
                  THEN [k \in 1..Len(boxes) |-> rescale_box(boxes[k], width)]
                  ELSE boxes
    IN  filter_boxes(scaled)

box_center(box) == <<box[1] + box[3] \div 2, box[2] + box[4] \div 2>>

\* dist ** 2; np.sqrt is strictly increasing on these integers, so the code's
\* comparisons of distances are comparisons of the squares
dist2(p, q) == (p[1] - q[1]) * (p[1] - q[1]) + (p[2] - q[2]) * (p[2] - q[2])

\* the loops of lines 134-143 and 155-163 comparing with <=: the last of
\* several nearest boxes wins
RECURSIVE nearest_player_last_wins(_, _, _)
nearest_player_last_wins(players, target, best) ==
    IF players = <<>> THEN best
    ELSE LET c == box_center(Head(players))
             d == dist2(target, c)
         IN  nearest_player_last_wins(Tail(players), target,
                                      IF best[1] = -1 \/ d <= best[1] THEN <<d, c>> ELSE best)

\* The loops of lines 134-143 and 155-163: best = <<min_dist ** 2, point>>,
\* <<-1, None>> standing for (inf, None); a box replaces the best only when
\* strictly nearer.
RECURSIVE nearest_player(_, _, _)
nearest_player(players, target, best) ==
    IF players = <<>> THEN best
    ELSE LET c == box_center(Head(players))
             d == dist2(target, c)
         IN  nearest_player(Tail(players), target,
                            IF best[1] = -1 \/ d < best[1] THEN <<d, c>> ELSE best)

\* min_dist < 200
within_match_radius_inclusive(d2) == d2 <= match_radius * match_radius

within_match_radius(d2) == d2 < match_radius * match_radius

\* the selection with the radius test left out: the nearest person always matches
select_player_no_radius(ball_pos, players, width, height) ==
    IF players = <<>> THEN [pos |-> None, via |-> "none"]
    ELSE IF ball_pos # None
         THEN [pos |-> nearest_player(players, ball_pos, <<-1, None>>)[2], via |-> "ball"]
         ELSE [pos |-> nearest_player(players, <<width \div 2, height \div 2>>, <<-1, None>>)[2],
               via |-> "center"]

\* the selection giving up when a ball was seen and its nearest person rejected
select_player_reject_is_none(ball_pos, players, width, height) ==
    IF players = <<>> THEN [pos |-> None, via |-> "none"]
    ELSE IF ball_pos # None
         THEN LET closest == nearest_player(players, ball_pos, <<-1, None>>)
              IN  IF within_match_radius(closest[1])
                  THEN [pos |-> closest[2], via |-> "ball"]
                  ELSE [pos |-> None, via |-> "none"]
         ELSE [pos |-> nearest_player(players, <<width \div 2, height \div 2>>, <<-1, None>>)[2],
               via |-> "center"]

(***************************************************************************)
(* PlayerTracker.find_player_with_ball, lines 125-165: the selection among *)
(* the detected ball and players.  pos is the value returned; via names    *)
(* the return statement that produced it (126, 146 or 165).                *)
(***************************************************************************)
select_player(ball_pos, players, width, height) ==
    IF players = <<>> THEN [pos |-> None, via |-> "none"]
    ELSE LET closest == IF ball_pos # None
                        THEN nearest_player(players, ball_pos, <<-1, None>>)
                        ELSE <<-1, None>>
         IN  IF ball_pos # None /\ closest[2] # None /\ within_match_radius(closest[1])
             THEN [pos |-> closest[2], via |-> "ball"]
             ELSE [pos |-> nearest_player(players, <<width \div 2, height \div 2>>,
                                          <<-1, None>>)[2],
                   via |-> "center"]

\* PlayerTracker.find_player_with_ball  (ball_tracker.py:109-165)
find_player_with_ball(f) ==
    LET ball_pos == detect_ball_position(f.contours)
        players  == detect_players(f.width, f.height, f.boxes)
        sel      == select_player(ball_pos, players, f.width, f.height)
    IN  [op |-> "find_player_with_ball",
         ball_pos |-> ball_pos, players |-> players, pos |-> sel.pos, via |-> sel.via]

(***************************************************************************)
(* make_frame  (clipper.py:201-242), one call of the callback MoviePy      *)
(* applies to every frame of the clip.                                     *)
(*                                                                         *)
(* scale_factor = shorts_height / original_height is a float; for the      *)
(* source sizes used here int(v * scale_factor) is the exact quotient      *)
(* v * shorts_height / original_height truncated.  Times are in frame      *)
(* periods: frame_counter[0] / fps against the timestamps of the tracked   *)
(* positions, both at the frame rate of the same file.                     *)
(***************************************************************************)

\* min(player_positions, key=lambda x: abs(x[0] - current_time)): the first
\* position of minimal distance in time
closest_position(ps, current_time) ==
    LET i == CHOOSE k \in 1..Len(ps) :
                 /\ \A j \in 1..Len(ps) : Abs(ps[k][1] - current_time) <= Abs(ps[j][1] - current_time)
                 /\ \A j \in 1..(k - 1) : Abs(ps[j][1] - current_time) > Abs(ps[k][1] - current_time)
    IN  ps[i]

\* scaled_width = int(original_width * scale_factor)  (line 195)
scaled_width_of(size) == Trunc(size[1] * shorts_height, size[2])

\* lines 218-225 with the upper clamp of crop_x left out
crop_origin_no_upper_clamp(player_x, player_y, size) ==
    <<Max(0, Trunc(player_x * shorts_height, size[2]) - shorts_width \div 2), 0>>

\* lines 218-225: the crop origin in the scaled frame
crop_origin(player_x, player_y, size) ==
    LET scaled_width == scaled_width_of(size)
        player_x_scaled == Trunc(player_x * shorts_height, size[2])
        player_y_scaled == Trunc(player_y * shorts_height, size[2])
        offset_y == Trunc(shorts_height, 10)
    IN  <<Max(0, Min(player_x_scaled - shorts_width \div 2, scaled_width - shorts_width)),
          Max(0, Min(player_y_scaled - shorts_height \div 2 - offset_y,
                     shorts_height - shorts_height))>>

\* the length of a[lo : lo + n] for an axis of length len (numpy slicing)
slice_len(len, lo, n) ==
    LET from == IF lo >= 0 THEN Min(lo, len) ELSE Max(0, len + lo)
        to   == IF lo + n >= 0 THEN Min(lo + n, len) ELSE Max(0, len + lo + n)
    IN  Max(0, to - from)

make_frame(ps, counter, size) ==
    LET closest_pos == closest_position(ps, counter)
        origin == crop_origin(closest_pos[2], closest_pos[3], size)
        scaled_width == scaled_width_of(size)
        h == slice_len(shorts_height, origin[2], shorts_height)
        w == slice_len(scaled_width, origin[1], shorts_width)
        pad == h < shorts_height \/ w < shorts_width
        y_offset == (shorts_height - h) \div 2
        x_offset == (shorts_width - w) \div 2
    IN  [op |-> "make_frame", player |-> <<closest_pos[2], closest_pos[3]>>,
         scaled_width |-> scaled_width, scaled_height |-> shorts_height,
         crop_x |-> origin[1], crop_y |-> origin[2],
         region_w |-> w, region_h |-> h, padded |-> pad,
         x_offset |-> IF pad THEN x_offset ELSE 0,
         y_offset |-> IF pad THEN y_offset ELSE 0,
         out_w |-> IF pad THEN shorts_width ELSE w,
         out_h |-> IF pad THEN shorts_height ELSE h]

(***************************************************************************)
(* Bounds and input sets                                                   *)
(***************************************************************************)
MaxDimK         == 4    \* get_crop_region: dimensions up to 5 * MaxDimK
MaxContours     == 2    \* contours per frame
MaxBoxes        == 2    \* detector boxes per frame
MaxTracked      == 2    \* tracked positions handed to the renderer
MaxRenderFrames == 3    \* frames the renderer pulls

RECURSIVE SeqsUpTo(_, _)
SeqsUpTo(S, n) ==
    IF n = 0 THEN {<<>>}
    ELSE LET shorter == SeqsUpTo(S, n - 1)
         IN  shorter \cup {Append(q, x) : q \in {r \in shorter : Len(r) = n - 1}, x \in S}

Dims   == {1} \cup {5 * k : k \in 1..MaxDimK}
Coords == {5 * k : k \in (-1)..(MaxDimK + 1)}

FrameSizes == {<<1280, 720>>, <<1920, 1080>>}

Contour(area, cx, cy, rx) == [area |-> area, m00 |-> area, m10 |-> area * cx + rx, m01 |-> area * cy]

ContourSet == {Contour(49, 100, 100, 0), Contour(50, 300, 200, 0), Contour(100, 640, 360, 50),
               Contour(50000, 900, 500, 0), Contour(50001, 20, 20, 0)}

BoxSet == {<<600, 250, 100, 220>>, <<150, 250, 100, 220>>, <<650, 250, 100, 220>>,
           <<790, 250, 100, 220>>, <<580, 250, 100, 220>>,
           <<600, 300, 200, 100>>, <<600, 300, 100, 80>>, <<400, 200, 96, 77>>}

SourceSizes == {<<1280, 720>>, <<1920, 1080>>, <<640, 480>>, <<360, 720>>}

\* tracked positions inside a frame of the given size
PointsOf(size) ==
    {<<x, y>> : x \in {0, size[1] \div 2, size[1] - 1}, y \in {0, size[2] - 1}}
        \cup {p \in {<<650, 360>>} : p[1] < size[1] /\ p[2] < size[2]}

NoCall == [op |-> "none"]

trackIdle ==
    /\ pc = "idle" /\ fps = 0 /\ start_time = 0 /\ duration = 0
    /\ detection_interval = 0 /\ frame_num = 0
    /\ tracker = None /\ tracked_bbox = None /\ last_position = None
    /\ position_history = <<>> /\ positions = <<>>
    /\ raw_log = <<>> /\ frames_in_range = 0
    /\ detected = FALSE /\ update = None

renderIdle ==
    /\ original_size = None /\ player_positions = <<>> /\ frame_counter = 0

(***************************************************************************)
(* The detectors and the selector, called on one frame.                    *)
(***************************************************************************)
InitLocate ==
    /\ \E size \in FrameSizes, contours \in SeqsUpTo(ContourSet, MaxContours),
          boxes \in SeqsUpTo(BoxSet, MaxBoxes) :
        frame = [width |-> size[1], height |-> size[2], contours |-> contours, boxes |-> boxes]
    /\ args = None /\ call = NoCall /\ renderIdle /\ trackIdle

FindPlayerWithBall ==
    /\ call = NoCall
    /\ call' = find_player_with_ball(frame)
    /\ UNCHANGED <<args, frame, renderVars, trackVars>>

NextLocate == FindPlayerWithBall

SpecLocate == InitLocate /\ [][NextLocate]_vars

(***************************************************************************)
(* The crop geometry: get_crop_region called on its own, and the render    *)
(* path of _format_with_ball_tracking.                                     *)
(***************************************************************************)
CropArgs ==
    [player_x : Coords, player_y : Coords, frame_width : Dims, frame_height : Dims,
     crop_width : Dims, crop_height : Dims]

\* calls with a zero or negative frame or crop dimension
MisuseArgs ==
    {a \in [player_x : {10}, player_y : {10}, frame_width : {-5, 0, 5, 10},
            frame_height : {-5, 0, 5, 10}, crop_width : {-5, 0, 5, 10},
            crop_height : {-5, 0, 5, 10}] :
        a.frame_width <= 0 \/ a.frame_height <= 0 \/ a.crop_width <= 0 \/ a.crop_height <= 0}

InitCrop ==
    /\ args \in CropArgs \cup MisuseArgs \cup {None}
    /\ frame = None /\ call = NoCall /\ renderIdle /\ trackIdle

GetCropRegion ==
    /\ args # None
    /\ call = NoCall
    /\ call' = [op |-> "get_crop_region",
                ret |-> get_crop_region(args.player_x, args.player_y, args.frame_width,
                                        args.frame_height, args.crop_width, args.crop_height)]
    /\ UNCHANGED <<args, frame, renderVars, trackVars>>

\* clipper.py:180-198: a non-empty position list came back, the clip is opened
FormatWithBallTracking ==
    /\ args = None
    /\ original_size = None
    /\ \E size \in SourceSizes :
       \E ps \in SeqsUpTo(PointsOf(size), MaxTracked) \ {<<>>} :
        /\ original_size' = size
        /\ player_positions' = [k \in 1..Len(ps) |-> <<k - 1, ps[k][1], ps[k][2]>>]
    /\ frame_counter' = 0
    /\ call' = [op |-> "_format_with_ball_tracking"]
    /\ UNCHANGED <<args, frame, trackVars>>

MakeFrame ==
    /\ original_size # None
    /\ frame_counter < MaxRenderFrames
    /\ call' = make_frame(player_positions, frame_counter, original_size)
    /\ frame_counter' = frame_counter + 1
    /\ UNCHANGED <<args, frame, original_size, player_positions, trackVars>>

NextCrop == GetCropRegion \/ FormatWithBallTracking \/ MakeFrame

SpecCrop == InitCrop /\ [][NextCrop]_vars

(***************************************************************************)
(* PlayerTracker.track_player_with_ball  (ball_tracker.py:167-274)         *)
(*                                                                         *)
(* fps is what cap.get(CAP_PROP_FPS) reports for a source that delivers    *)
(* frames: a positive rate, whole here.  A time start_time + frame_num / fps *)
(* is kept as the number of frame periods start_time * fps + frame_num.    *)
(* tracker is None or [id, bbox, failed]: the id-th tracker object created *)
(* by this call, initialized on bbox; failed tells whether one of its      *)
(* updates has reported failure.                                           *)
(***************************************************************************)
MaxFrames == 8    \* frames the source can deliver before cap.read() fails

Rates      == {1, 2, 4}
Durations  == {1, 2}
StartTimes == {0, 1}

Frame(contours, boxes) == [width |-> 1280, height |-> 720, contours |-> contours, boxes |-> boxes]

\* the frames of the clip: nobody in sight; a ball with a player next to it;
\* a player at the left edge and no ball
TrackFrames == {Frame(<<>>, <<>>),
                Frame(<<Contour(100, 640, 360, 50)>>, << <<600, 250, 100, 220>> >>),
                Frame(<<>>, << <<0, 250, 100, 220>> >>)}

\* tracker.update(frame): <<success, bbox>>
TrackerUpdates == {<<FALSE, <<0, 0, 0, 0>> >>, <<TRUE, <<500, 300, 150, 150>> >>}

\* lines 260-262 evicting the newest position instead of the oldest
push_history_drop_newest(history, player_pos) ==
    LET h == Append(history, player_pos)
    IN  IF Len(h) > history_size THEN SubSeq(h, 1, Len(h) - 1) ELSE h

\* lines 260-262: position_history.append(player_pos); pop(0) when over history_size
push_history(history, player_pos) ==
    LET h == Append(history, player_pos)
    IN  IF Len(h) > history_size THEN Tail(h) ELSE h

\* the weights of line 265 in reverse: the oldest position weighs most
RECURSIVE weighted_sum_reversed(_, _, _)
weighted_sum_reversed(xs, k, n) ==
    IF k > n THEN 0 ELSE (2 * n - 1 - k) * xs[k] + weighted_sum_reversed(xs, k + 1, n)

RECURSIVE weighted_sum(_, _, _)
weighted_sum(xs, k, n) ==
    IF k > n THEN 0 ELSE (n - 2 + k) * xs[k] + weighted_sum(xs, k + 1, n)

RECURSIVE weight_total(_, _)
weight_total(k, n) == IF k > n THEN 0 ELSE (n - 2 + k) + weight_total(k + 1, n)

(***************************************************************************)
(* lines 265-267: int(np.average(xs, weights=np.linspace(0.5, 1.0, n))).   *)
(* The k-th of n > 1 weights is 0.5 + 0.5 (k-1)/(n-1), proportional to     *)
(* n - 2 + k; for n = 1 the weight is 0.5.  np.average divides the sum of  *)
(* the products by the sum of the weights, both accumulated in doubles in  *)
(* list order.  For n in {4, 6, 7} the weights are not binary fractions,   *)
(* and when the exact average is a whole number q the double quotient can  *)
(* come out just below q, int() then giving q - 1.  float_shortfall lists  *)
(* the histories for which IEEE-754 double evaluation does so, among all   *)
(* histories over the coordinates that occur in the specifications of this *)
(* module (tracking loop: x in {50, 575, 640, 650}, y in {360, 375}, up to *)
(* 7 entries; smoother: the coordinates of RawPoints, up to 6 entries).    *)
(* For every other such history int() of the double quotient is the exact  *)
(* average truncated.                                                      *)
(***************************************************************************)
float_shortfall ==
    {<<500, 100, 100, 101>>, <<500, 100, 100, 104>>, <<500, 500, 104, 101>>,
     <<500, 500, 104, 104>>, <<640, 575, 50, 50>>,
     <<100, 103, 103, 103, 103, 100>>, <<101, 101, 101, 100, 103, 100>>,
     <<101, 101, 104, 103, 103, 100>>, <<101, 103, 103, 103, 103, 104>>,
     <<103, 103, 103, 103, 103, 103>>, <<104, 101, 101, 100, 103, 103>>,
     <<104, 101, 104, 103, 103, 103>>, <<500, 500, 104, 101, 101, 101>>,
     <<50, 50, 50, 575, 650, 650, 50>>, <<50, 50, 50, 640, 575, 50, 640>>,
     <<50, 50, 575, 575, 575, 50, 50>>, <<50, 50, 575, 575, 575, 50, 575>>,
     <<50, 575, 575, 50, 575, 575, 50>>, <<50, 575, 575, 50, 650, 650, 50>>,
     <<50, 640, 640, 640, 650, 50, 50>>, <<50, 650, 50, 575, 575, 50, 50>>,
     <<50, 650, 50, 575, 575, 50, 575>>, <<50, 650, 640, 50, 640, 650, 50>>,
     <<575, 50, 50, 575, 575, 575, 50>>, <<575, 50, 50, 575, 650, 650, 50>>,
     <<575, 50, 50, 640, 575, 50, 640>>, <<575, 50, 575, 50, 575, 50, 50>>,
     <<575, 50, 575, 50, 575, 50, 575>>, <<575, 50, 575, 575, 575, 50, 50>>,
     <<575, 650, 50, 575, 575, 50, 50>>, <<575, 650, 575, 650, 640, 640, 650>>,
     <<640, 50, 50, 650, 575, 650, 50>>, <<640, 50, 650, 50, 575, 50, 650>>,
     <<640, 50, 650, 50, 650, 50, 640>>, <<640, 50, 650, 640, 575, 50, 50>>,
     <<640, 640, 640, 50, 575, 50, 50>>, <<640, 640, 640, 640, 640, 640, 640>>,
     <<640, 650, 650, 575, 640, 640, 650>>, <<640, 650, 650, 640, 640, 640, 50>>,
     <<640, 650, 650, 640, 640, 640, 575>>, <<650, 50, 640, 50, 640, 50, 650>>,
     <<650, 50, 640, 640, 640, 50, 50>>, <<650, 575, 50, 640, 650, 50, 50>>,
     <<650, 575, 650, 50, 575, 50, 50>>, <<650, 575, 650, 640, 640, 640, 640>>,
     <<650, 640, 640, 650, 640, 640, 50>>, <<650, 640, 640, 650, 640, 640, 575>>}

int_average(xs) ==
    LET n == Len(xs)
        num == IF n = 1 THEN xs[1] ELSE weighted_sum(xs, 1, n)
        den == IF n = 1 THEN 1 ELSE weight_total(1, n)
        q == Trunc(num, den)
    IN  IF xs \in float_shortfall THEN q - 1 ELSE q

\* lines 222-223 without the clamp of line 223
init_bbox_unclamped(player_pos) ==
    <<player_pos[1] - bbox_size \div 2, player_pos[2] - bbox_size \div 2, bbox_size, bbox_size>>

\* lines 222-223: the box the tracker is initialized on
init_bbox(player_pos) ==
    [k \in 1..4 |-> Max(0, <<player_pos[1] - bbox_size \div 2, player_pos[2] - bbox_size \div 2,
                             bbox_size, bbox_size>>[k])]

\* line 200: detection_interval = int(fps * 0.5)
detection_interval_of(rate) == Trunc(rate, 2)

\* line 208 negated: current_time <= start_time + duration, for the n-th frame
within_duration(n) == n <= duration * fps

Init ==
    /\ args = None /\ frame = None /\ call = NoCall /\ renderIdle /\ trackIdle

\* lines 180-200: open the source, read its frame rate, seek, set the locals
TrackPlayerWithBall ==
    /\ pc = "idle"
    /\ \E rate \in Rates, st \in StartTimes, d \in Durations :
        /\ fps' = rate /\ start_time' = st /\ duration' = d
        /\ detection_interval' = detection_interval_of(rate)
    /\ pc' = "loop"
    /\ frame_num' = 0 /\ last_position' = None
    /\ tracker' = None /\ tracked_bbox' = None
    /\ position_history' = <<>> /\ positions' = <<>>
    /\ raw_log' = <<>> /\ frames_in_range' = 0
    /\ detected' = FALSE /\ update' = None
    /\ call' = NoCall
    /\ UNCHANGED <<args, frame, renderVars>>

loopLocals == <<fps, start_time, duration, detection_interval, frame_num, tracker,
                tracked_bbox, last_position, position_history, positions, raw_log,
                detected, update>>

\* lines 203-205, 273-274: cap.read() fails; the positions are returned
ReadFails ==
    /\ pc = "loop"
    /\ pc' = "done"
    /\ frame' = None
    /\ call' = [op |-> "track_player_with_ball", ret |-> positions]
    /\ UNCHANGED <<args, renderVars, loopLocals, frames_in_range>>

\* lines 207-209, 273-274: the first frame past the duration; the positions are returned
PastDuration ==
    /\ pc = "loop" /\ frame_num < MaxFrames
    /\ ~within_duration(frame_num)
    /\ \E f \in TrackFrames : frame' = f
    /\ pc' = "done"
    /\ call' = [op |-> "track_player_with_ball", ret |-> positions]
    /\ UNCHANGED <<args, renderVars, loopLocals, frames_in_range>>

\* line 214: frame_num % detection_interval with detection_interval = 0 raises
\* ZeroDivisionError (the modulo is evaluated before `tracker is None`)
IntervalModuloByZero ==
    /\ pc = "loop" /\ frame_num < MaxFrames
    /\ within_duration(frame_num)
    /\ detection_interval = 0
    /\ \E f \in TrackFrames : frame' = f
    /\ frames_in_range' = frames_in_range + 1
    /\ pc' = "raised"
    /\ call' = [op |-> "track_player_with_ball", raised |-> "ZeroDivisionError", line |-> 214]
    /\ UNCHANGED <<args, renderVars, loopLocals>>

\* lines 211-257 with line 244 left out: a successful update does not move last_position
observe_success_keeps_last(f, upd) ==
    LET \* lines 213-235
        detect == frame_num % detection_interval = 0 \/ tracker = None
        found  == IF detect THEN find_player_with_ball(f).pos ELSE None
        init   == found # None
        bbox   == init_bbox(found)
        tracker1 == IF init
                    THEN [id |-> IF tracker = None THEN 1 ELSE tracker.id + 1, bbox |-> bbox,
                          failed |-> FALSE]
                    ELSE tracker
        tracked_bbox1 == IF init THEN bbox ELSE tracked_bbox
        last1 == IF init THEN found ELSE last_position
        \* lines 237-248
        updated == tracker1 # None /\ upd[1]
        center  == <<upd[2][1] + upd[2][3] \div 2, upd[2][2] + upd[2][4] \div 2>>
        pos2  == IF tracker1 = None THEN found
                 ELSE IF upd[1] THEN center
                 ELSE IF last1 # None THEN last1 ELSE found
        tracker2 == IF tracker1 # None /\ ~upd[1]
                    THEN [tracker1 EXCEPT !.failed = TRUE] ELSE tracker1
        tracked_bbox2 == IF updated THEN upd[2] ELSE tracked_bbox1
        last2 == last1
        \* lines 250-257
        player_pos == IF pos2 # None THEN pos2
                      ELSE IF last2 # None THEN last2
                      ELSE <<f.width \div 2, f.height \div 2>>
    IN  [tracker |-> tracker2, tracked_bbox |-> tracked_bbox2, last_position |-> last2,
         player_pos |-> player_pos, detected |-> detect,
         update |-> IF tracker1 = None THEN None ELSE upd]

\* lines 211-257 with the else branch of lines 230-235 left out: a tracker in
\* use is not replaced when the detection finds a point
observe_no_reinit(f, upd) ==
    LET \* lines 213-235
        detect == frame_num % detection_interval = 0 \/ tracker = None
        found  == IF detect THEN find_player_with_ball(f).pos ELSE None
        init   == found # None /\ tracker = None
        bbox   == init_bbox(found)
        tracker1 == IF init
                    THEN [id |-> IF tracker = None THEN 1 ELSE tracker.id + 1, bbox |-> bbox,
                          failed |-> FALSE]
                    ELSE tracker
        tracked_bbox1 == IF init THEN bbox ELSE tracked_bbox
        last1 == IF init THEN found ELSE last_position
        \* lines 237-248
        updated == tracker1 # None /\ upd[1]
        center  == <<upd[2][1] + upd[2][3] \div 2, upd[2][2] + upd[2][4] \div 2>>
        pos2  == IF tracker1 = None THEN found
                 ELSE IF upd[1] THEN center
                 ELSE IF last1 # None THEN last1 ELSE found
        tracker2 == IF tracker1 # None /\ ~upd[1]
                    THEN [tracker1 EXCEPT !.failed = TRUE] ELSE tracker1
        tracked_bbox2 == IF updated THEN upd[2] ELSE tracked_bbox1
        last2 == IF updated THEN center ELSE last1
        \* lines 250-257
        player_pos == IF pos2 # None THEN pos2
                      ELSE IF last2 # None THEN last2
                      ELSE <<f.width \div 2, f.height \div 2>>
    IN  [tracker |-> tracker2, tracked_bbox |-> tracked_bbox2, last_position |-> last2,
         player_pos |-> player_pos, detected |-> detect,
         update |-> IF tracker1 = None THEN None ELSE upd]

\* lines 211-257 with `tracker = None` added to the failure branch of line 245
observe_failure_drops_tracker(f, upd) ==
    LET \* lines 213-235
        detect == frame_num % detection_interval = 0 \/ tracker = None
        found  == IF detect THEN find_player_with_ball(f).pos ELSE None
        init   == found # None
        bbox   == init_bbox(found)
        tracker1 == IF init
                    THEN [id |-> IF tracker = None THEN 1 ELSE tracker.id + 1, bbox |-> bbox,
                          failed |-> FALSE]
                    ELSE tracker
        tracked_bbox1 == IF init THEN bbox ELSE tracked_bbox
        last1 == IF init THEN found ELSE last_position
        \* lines 237-248
        updated == tracker1 # None /\ upd[1]
        center  == <<upd[2][1] + upd[2][3] \div 2, upd[2][2] + upd[2][4] \div 2>>
        pos2  == IF tracker1 = None THEN found
                 ELSE IF upd[1] THEN center
                 ELSE IF last1 # None THEN last1 ELSE found
        tracker2 == IF tracker1 # None /\ ~upd[1] THEN None ELSE tracker1
        tracked_bbox2 == IF updated THEN upd[2] ELSE tracked_bbox1
        last2 == IF updated THEN center ELSE last1
        \* lines 250-257
        player_pos == IF pos2 # None THEN pos2
                      ELSE IF last2 # None THEN last2
                      ELSE <<f.width \div 2, f.height \div 2>>
    IN  [tracker |-> tracker2, tracked_bbox |-> tracked_bbox2, last_position |-> last2,
         player_pos |-> player_pos, detected |-> detect,
         update |-> IF tracker1 = None THEN None ELSE upd]

\* lines 211-257 on frame f with tracker.update(f) answering upd: the locals
\* after the detection phase, the tracking phase and the fallback
observe(f, upd) ==
    LET \* lines 213-235
        detect == frame_num % detection_interval = 0 \/ tracker = None
        found  == IF detect THEN find_player_with_ball(f).pos ELSE None
        init   == found # None
        bbox   == init_bbox(found)
        tracker1 == IF init
                    THEN [id |-> IF tracker = None THEN 1 ELSE tracker.id + 1, bbox |-> bbox,
                          failed |-> FALSE]
                    ELSE tracker
        tracked_bbox1 == IF init THEN bbox ELSE tracked_bbox
        last1 == IF init THEN found ELSE last_position
        \* lines 237-248
        updated == tracker1 # None /\ upd[1]
        center  == <<upd[2][1] + upd[2][3] \div 2, upd[2][2] + upd[2][4] \div 2>>
        pos2  == IF tracker1 = None THEN found
                 ELSE IF upd[1] THEN center
                 ELSE IF last1 # None THEN last1 ELSE found
        tracker2 == IF tracker1 # None /\ ~upd[1]
                    THEN [tracker1 EXCEPT !.failed = TRUE] ELSE tracker1
        tracked_bbox2 == IF updated THEN upd[2] ELSE tracked_bbox1
        last2 == IF updated THEN center ELSE last1
        \* lines 250-257
        player_pos == IF pos2 # None THEN pos2
                      ELSE IF last2 # None THEN last2
                      ELSE <<f.width \div 2, f.height \div 2>>
    IN  [tracker |-> tracker2, tracked_bbox |-> tracked_bbox2, last_position |-> last2,
         player_pos |-> player_pos, detected |-> detect,
         update |-> IF tracker1 = None THEN None ELSE upd]

\* lines 203-271: one frame read and processed
ProcessFrame ==
    /\ pc = "loop" /\ frame_num < MaxFrames
    /\ within_duration(frame_num)
    /\ detection_interval # 0
    /\ \E f \in TrackFrames, upd \in TrackerUpdates :
       \E o \in {observe(f, upd)} :
       \E history \in {push_history(position_history, o.player_pos)} :
       \E xs \in {[k \in 1..Len(history) |-> history[k][1]]},
          ys \in {[k \in 1..Len(history) |-> history[k][2]]} :
       \E avg_x \in {int_average(xs)}, avg_y \in {int_average(ys)} :
            /\ frame' = f
            /\ tracker' = o.tracker
            /\ detected' = o.detected
            /\ update' = o.update
            /\ tracked_bbox' = o.tracked_bbox
            /\ last_position' = o.last_position
            /\ position_history' = history
            /\ raw_log' = Append(raw_log, o.player_pos)
            /\ positions' = Append(positions, <<start_time * fps + frame_num, avg_x, avg_y>>)
    /\ frames_in_range' = frames_in_range + 1
    /\ frame_num' = frame_num + 1
    /\ call' = NoCall
    /\ UNCHANGED <<args, renderVars, pc, fps, start_time, duration, detection_interval>>

Next ==
    \/ TrackPlayerWithBall
    \/ ReadFails
    \/ PastDuration
    \/ IntervalModuloByZero
    \/ ProcessFrame

Spec == Init /\ [][Next]_vars

(***************************************************************************)
(* The smoother on its own: lines 259-269 fed with raw positions, from an  *)
(* empty history.                                                          *)
(***************************************************************************)
MaxPushed == 5    \* raw positions pushed

RawPoints == {<<100, 100>>, <<102, 101>>, <<500, 500>>, <<104, 103>>, <<105, 104>>}

\* lines 259-271 for one raw position
SmoothPosition ==
    /\ Len(raw_log) < MaxPushed
    /\ \E player_pos \in RawPoints :
       \E history \in {push_history(position_history, player_pos)} :
       \E avg_x \in {int_average([k \in 1..Len(history) |-> history[k][1]])},
          avg_y \in {int_average([k \in 1..Len(history) |-> history[k][2]])} :
            /\ position_history' = history
            /\ raw_log' = Append(raw_log, player_pos)
            /\ positions' = Append(positions, <<frame_num, avg_x, avg_y>>)
    /\ frame_num' = frame_num + 1
    /\ UNCHANGED <<args, frame, call, renderVars, pc, fps, start_time, duration,
                   detection_interval, tracker, tracked_bbox, last_position,
                   frames_in_range, detected, update>>

NextSmooth == SmoothPosition

SpecSmooth == Init /\ [][NextSmooth]_vars

(***************************************************************************)
(* HighlightFusion.fuse  (fusion.py:22-97)                                 *)
(*                                                                         *)
(* A highlight is a record that may lack a key (dict.get with a default).  *)
(* Scores are kept in halves, a score s of the program being 2 * s here:   *)
(* the defaults 5 and 0.5 are 10 and 1, and text + visual * 2 is           *)
(* text + 2 * visual on either scale.  Descriptions are carried through    *)
(* unchanged by the code and left out.  text_index and visual_index are    *)
(* history fields: the positions (from 1, 0 for none) of the inputs an     *)
(* entry was built from.                                                   *)
(***************************************************************************)
overlap_threshold == 5    \* overlap_threshold: float = 5.0

get(hl, key, default) == IF key \in DOMAIN hl THEN hl[key] ELSE default

\* line 50
combined_score(text_hl, visual_hl) == get(text_hl, "score", 10) + get(visual_hl, "score", 1) * 2

\* lines 41-54: best = <<best_match_idx, best_match_score>>, index 0 for None
RECURSIVE best_match(_, _, _, _)
best_match(text_hl, visual_highlights, j, best) ==
    IF j > Len(visual_highlights) THEN best
    ELSE LET visual_hl == visual_highlights[j]
             near == Abs(get(text_hl, "timestamp", 0) - get(visual_hl, "timestamp", 0))
                         <= overlap_threshold
             score == combined_score(text_hl, visual_hl)
         IN  best_match(text_hl, visual_highlights, j + 1,
                        IF near /\ score > best[2] THEN <<j, score>> ELSE best)

\* lines 57-69 without the test of used_visual_indices
RECURSIVE merge_overlapping_reusing(_, _, _, _)
merge_overlapping_reusing(text_highlights, visual_highlights, i, acc) ==
    IF i > Len(text_highlights) THEN acc
    ELSE LET text_hl == text_highlights[i]
             best == best_match(text_hl, visual_highlights, 1, <<0, 0>>)
         IN  merge_overlapping_reusing(text_highlights, visual_highlights, i + 1,
                 IF best[1] # 0
                 THEN [fused |-> Append(acc.fused,
                                    [timestamp |-> get(text_hl, "timestamp", 0),
                                     score |-> best[2], source |-> "fused",
                                     text_score |-> get(text_hl, "score", 10),
                                     visual_score |-> get(visual_highlights[best[1]], "score", 1),
                                     text_index |-> i, visual_index |-> best[1]]),
                       used_text_indices |-> acc.used_text_indices \cup {i},
                       used_visual_indices |-> acc.used_visual_indices \cup {best[1]}]
                 ELSE acc)

\* lines 38-69: acc = [fused, used_text_indices, used_visual_indices]
RECURSIVE merge_overlapping(_, _, _, _)
merge_overlapping(text_highlights, visual_highlights, i, acc) ==
    IF i > Len(text_highlights) THEN acc
    ELSE LET text_hl == text_highlights[i]
             best == best_match(text_hl, visual_highlights, 1, <<0, 0>>)
         IN  merge_overlapping(text_highlights, visual_highlights, i + 1,
                 IF best[1] # 0 /\ best[1] \notin acc.used_visual_indices
                 THEN [fused |-> Append(acc.fused,
                                    [timestamp |-> get(text_hl, "timestamp", 0),
                                     score |-> best[2], source |-> "fused",
                                     text_score |-> get(text_hl, "score", 10),
                                     visual_score |-> get(visual_highlights[best[1]], "score", 1),
                                     text_index |-> i, visual_index |-> best[1]]),
                       used_text_indices |-> acc.used_text_indices \cup {i},
                       used_visual_indices |-> acc.used_visual_indices \cup {best[1]}]
                 ELSE acc)

\* lines 72-81
RECURSIVE add_unmatched_text(_, _, _, _)
add_unmatched_text(text_highlights, used_text_indices, i, fused) ==
    IF i > Len(text_highlights) THEN fused
    ELSE add_unmatched_text(text_highlights, used_text_indices, i + 1,
             IF i \notin used_text_indices
             THEN Append(fused, [timestamp |-> get(text_highlights[i], "timestamp", 0),
                                 score |-> get(text_highlights[i], "score", 10),
                                 source |-> "text",
                                 text_score |-> get(text_highlights[i], "score", 10),
                                 visual_score |-> 0,
                                 text_index |-> i, visual_index |-> 0])
             ELSE fused)

\* lines 84-93
RECURSIVE add_unmatched_visual(_, _, _, _)
add_unmatched_visual(visual_highlights, used_visual_indices, j, fused) ==
    IF j > Len(visual_highlights) THEN fused
    ELSE add_unmatched_visual(visual_highlights, used_visual_indices, j + 1,
             IF j \notin used_visual_indices /\ Len(fused) < 10
             THEN Append(fused, [timestamp |-> get(visual_highlights[j], "timestamp", 0),
                                 score |-> get(visual_highlights[j], "score", 1) * 2,
                                 source |-> "visual",
                                 text_score |-> 0,
                                 visual_score |-> get(visual_highlights[j], "score", 1),
                                 text_index |-> 0, visual_index |-> j])
             ELSE fused)

\* line 96: fused.sort(key=score, reverse=True), a stable sort: entries of
\* equal score keep their order
RECURSIVE sort_by_score(_)
sort_by_score(fused) ==
    IF fused = <<>> THEN <<>>
    ELSE LET i == CHOOSE k \in 1..Len(fused) :
                      /\ \A m \in 1..Len(fused) : fused[m].score <= fused[k].score
                      /\ \A m \in 1..(k - 1) : fused[m].score < fused[k].score
         IN  <<fused[i]>> \o sort_by_score(SubSeq(fused, 1, i - 1)
                                           \o SubSeq(fused, i + 1, Len(fused)))

\* HighlightFusion.fuse: unsorted is the list before line 96, ret the value returned
fuse(text_highlights, visual_highlights) ==
    LET merged == merge_overlapping(text_highlights, visual_highlights, 1,
                      [fused |-> <<>>, used_text_indices |-> {}, used_visual_indices |-> {}])
        with_text == add_unmatched_text(text_highlights, merged.used_text_indices, 1,
                                        merged.fused)
        unsorted == add_unmatched_visual(visual_highlights, merged.used_visual_indices, 1,
                                         with_text)
        sorted == sort_by_score(unsorted)
    IN  [op |-> "fuse", unsorted |-> unsorted,
         ret |-> SubSeq(sorted, 1, Min(5, Len(sorted)))]

MaxHighlights == 4    \* highlights per input list

\* the text scores 5 and -2 and the visual scores 0.5 and 1.5, in halves; a
\* highlight without a score
TextSet == {[timestamp |-> 0, score |-> 10], [timestamp |-> 5, score |-> -4],
            [timestamp |-> 20]}

VisualSet == {[timestamp |-> 5, score |-> 1], [timestamp |-> 0, score |-> 3],
              [timestamp |-> 26]}

InitFuse ==
    /\ args \in [text_highlights : SeqsUpTo(TextSet, MaxHighlights),
                 visual_highlights : SeqsUpTo(VisualSet, MaxHighlights)]
    /\ frame = None /\ call = NoCall /\ renderIdle /\ trackIdle

Fuse ==
    /\ call = NoCall
    /\ call' = fuse(args.text_highlights, args.visual_highlights)
    /\ UNCHANGED <<args, frame, renderVars, trackVars>>

NextFuse == Fuse

SpecFuse == InitFuse /\ [][NextFuse]_vars

(***************************************************************************)
(* CaptionOverlay.process_clip  (overlay.py:149-178)                       *)
(*                                                                         *)
(* A path is a sequence of pieces of text; ".mp4" is one piece,            *)
(* "_final.mp4" is <<"_final", ".mp4">> and "_with_subs.mp4" is            *)
(* <<"_with_subs", ".mp4">>, the other pieces containing no part of them.  *)
(* add_title and add_subtitles return output_path when the overlay was     *)
(* written and video_path when an exception was caught (lines 70-74 and    *)
(* 143-147); which of the two happens is up to MoviePy.                    *)
(***************************************************************************)

\* str.replace(old, new): every occurrence, left to right, without overlap
RECURSIVE replace(_, _, _)
replace(str, old, new) ==
    IF Len(str) < Len(old) THEN str
    ELSE IF SubSeq(str, 1, Len(old)) = old
         THEN new \o replace(SubSeq(str, Len(old) + 1, Len(str)), old, new)
         ELSE <<Head(str)>> \o replace(Tail(str), old, new)

\* lines 165-178; title_ok and subs_ok tell whether the overlay step, if it
\* runs, writes its output.  title_call and subs_call record the paths the
\* steps were called with, None for a step that did not run.
process_clip(clip_path, add_title, add_subtitles, title_ok, subs_ok) ==
    LET output_path == replace(clip_path, <<".mp4">>, <<"_final", ".mp4">>)
        current_path1 == IF add_title /\ title_ok THEN output_path ELSE clip_path
        final_output == replace(current_path1, <<"_final", ".mp4">>, <<"_with_subs", ".mp4">>)
        current_path2 == IF add_subtitles /\ subs_ok THEN final_output ELSE current_path1
    IN  [op |-> "process_clip",
         title_call |-> IF add_title
                        THEN [video_path |-> clip_path, output_path |-> output_path,
                              ok |-> title_ok]
                        ELSE None,
         subs_call |-> IF add_subtitles
                       THEN [video_path |-> current_path1, output_path |-> final_output,
                             ok |-> subs_ok]
                       ELSE None,
         ret |-> current_path2]

MaxPathPieces == 3    \* pieces of a clip path

PathPieces == {"clip", ".mp4", ".mov", "_final", "_with_subs"}

InitOverlay ==
    /\ args \in [clip_path : SeqsUpTo(PathPieces, MaxPathPieces) \ {<<>>},
                 add_title : BOOLEAN, add_subtitles : BOOLEAN]
    /\ frame = None /\ call = NoCall /\ renderIdle /\ trackIdle

ProcessClip ==
    /\ call = NoCall
    /\ \E title_ok \in BOOLEAN, subs_ok \in BOOLEAN :
        call' = process_clip(args.clip_path, args.add_title, args.add_subtitles,
                             title_ok, subs_ok)
    /\ UNCHANGED <<args, frame, renderVars, trackVars>>

NextOverlay == ProcessClip

SpecOverlay == InitOverlay /\ [][NextOverlay]_vars

(***************************************************************************)
(* Tracking loop                                                           *)
(***************************************************************************)

\* C3: after every frame the smoothing history holds at most history_size (7)
\* positions, and they are the most recent min(n, 7) raw positions in arrival
\* order, n being the number of frames processed.
C3_HistoryIsRecentWindow ==
    LET n == Len(raw_log)
        m == Min(n, history_size)
    IN  /\ Len(position_history) <= history_size
        /\ position_history = SubSeq(raw_log, n - m + 1, n)

\* an eighth frame has been processed and the position evicted differs from its successor
C3_Witness ==
    /\ Len(raw_log) = history_size + 1
    /\ raw_log[1] # raw_log[2]
    /\ Len(position_history) = history_size

\* C4: one entry is emitted for every frame read whose time is within the
\* duration, and the entries are in strictly increasing timestamp order.
C4_OneEntryPerFrameInRange ==
    /\ Len(positions) = frames_in_range
    /\ \A k \in 1..(Len(positions) - 1) : positions[k][1] < positions[k + 1][1]

\* C5: the tracking loop never raises, whatever frame rate the source reports
\* and whatever the detectors and the tracker answer.
C5_NeverRaises == pc # "raised"

(***************************************************************************)
(* Crop geometry                                                           *)
(***************************************************************************)

\* C1: whenever the (scaled) source is at least as large as the target on both
\* axes, the crop origin of get_crop_region and of make_frame is non-negative
\* and the crop rectangle ends inside the source.
C1_CropInsideSource ==
    /\ (/\ call.op = "get_crop_region"
        /\ args.frame_width >= args.crop_width
        /\ args.frame_height >= args.crop_height)
       => /\ 0 <= call.ret[1] /\ 0 <= call.ret[2]
          /\ call.ret[1] + args.crop_width <= args.frame_width
          /\ call.ret[2] + args.crop_height <= args.frame_height
    /\ (/\ call.op = "make_frame"
        /\ call.scaled_width >= shorts_width
        /\ call.scaled_height >= shorts_height)
       => /\ 0 <= call.crop_x /\ 0 <= call.crop_y
          /\ call.crop_x + shorts_width <= call.scaled_width
          /\ call.crop_y + shorts_height <= call.scaled_height

\* a call whose subject lies left of and above the first feasible crop: both lower clamps act
C1_Witness ==
    /\ call.op = "get_crop_region"
    /\ args.frame_width > args.crop_width /\ args.frame_height > args.crop_height
    /\ args.player_x - args.crop_width \div 2 < 0
    /\ args.player_y - args.crop_height \div 2 - Trunc(args.crop_height, 10) < 0
    /\ call.ret = <<0, 0>>

\* C2: a crop that extends past the source is never returned without a padding
\* signal (get_crop_region), and every frame make_frame hands on has the target
\* size, an undersized region being centered in it.
C2_PaddingSignalled ==
    /\ (/\ call.op = "get_crop_region"
        /\ \/ call.ret[1] + args.crop_width > args.frame_width
           \/ call.ret[2] + args.crop_height > args.frame_height)
       => (Len(call.ret) > 2 /\ call.ret[3] = TRUE)
    /\ call.op = "make_frame"
       => /\ call.out_w = shorts_width /\ call.out_h = shorts_height
          /\ (call.region_w < shorts_width \/ call.region_h < shorts_height)
             => /\ call.padded
                /\ call.x_offset = (shorts_width - call.region_w) \div 2
                /\ call.y_offset = (shorts_height - call.region_h) \div 2

\* C13: a call of get_crop_region with a zero or negative frame or crop
\* dimension ends in an exception or an explicit error result, never in an
\* ordinary crop origin.
C13_MisuseFailsFast ==
    (/\ call.op = "get_crop_region"
     /\ \/ args.frame_width <= 0 \/ args.frame_height <= 0
        \/ args.crop_width <= 0 \/ args.crop_height <= 0)
        => \/ "raised" \in DOMAIN call
           \/ call.ret = None

\* C26: for positive dimensions, whenever the biased value
\* player_y - crop_height // 2 - floor(0.1 * crop_height) lies inside
\* [0, frame_height - crop_height], get_crop_region returns it as crop_y; and
\* whenever player_x - crop_width // 2 lies inside [0, frame_width - crop_width]
\* it is returned as crop_x, without any bias.
C26_BiasBeforeClamp ==
    (/\ call.op = "get_crop_region"
     /\ args.frame_width > 0 /\ args.frame_height > 0
     /\ args.crop_width > 0 /\ args.crop_height > 0)
        => LET biased_y == args.player_y - args.crop_height \div 2 - args.crop_height \div 10
               centered_x == args.player_x - args.crop_width \div 2
           IN  /\ (0 <= biased_y /\ biased_y <= args.frame_height - args.crop_height)
                      => call.ret[2] = biased_y
               /\ (0 <= centered_x /\ centered_x <= args.frame_width - args.crop_width)
                      => call.ret[1] = centered_x

\* a call whose bias is 1 row and whose biased value lies strictly inside the
\* feasible interval
C26_Witness ==
    /\ call.op = "get_crop_region"
    /\ args.crop_height = 10 /\ args.frame_height = 20
    /\ args.player_y = 15
    /\ call.ret[2] = 9

(***************************************************************************)
(* Object locator and subject selector                                     *)
(***************************************************************************)
Located == call.op = "find_player_with_ball"

InBand(c) == min_area <= c.area /\ c.area <= max_area

Centroid(c) == <<Trunc(c.m10, c.m00), Trunc(c.m01, c.m00)>>

FrameCenter == <<frame.width \div 2, frame.height \div 2>>

\* C6: a point returned as the ball match is the center of a person box of
\* minimal distance to the ball, and that distance is below the match radius;
\* ball (640,360) with the one box (600,250,100,220) gives (650,360).
C6_BallMatchNearestWithinRadius ==
    Located =>
        /\ call.via = "ball" =>
            /\ call.ball_pos # None
            /\ \E i \in 1..Len(call.players) :
                /\ call.pos = box_center(call.players[i])
                /\ \A j \in 1..Len(call.players) :
                       dist2(call.ball_pos, call.pos)
                           <= dist2(call.ball_pos, box_center(call.players[j]))
            /\ dist2(call.ball_pos, call.pos) < match_radius * match_radius
        /\ (/\ frame.width = 1280 /\ frame.height = 720
            /\ call.ball_pos = <<640, 360>>
            /\ frame.boxes = << <<600, 250, 100, 220>> >>)
           => call.pos = <<650, 360>>

\* the match is the second of two persons, the first being farther from the ball
C6_Witness ==
    /\ Located /\ call.via = "ball"
    /\ Len(call.players) = 2
    /\ call.pos = box_center(call.players[2])
    /\ dist2(call.ball_pos, box_center(call.players[1])) > dist2(call.ball_pos, call.pos)

\* C7: nothing is returned exactly when no person box exists; with persons but
\* no ball, or with every person at least the match radius from the ball, the
\* center of a person box nearest the frame center is returned; no ball and
\* boxes centered (200,360) and (700,360) in 1280x720 give (700,360).
C7_FallbackNearestFrameCenter ==
    Located =>
        /\ call.pos = None <=> call.players = <<>>
        /\ (/\ call.players # <<>>
            /\ \/ call.ball_pos = None
               \/ \A j \in 1..Len(call.players) :
                      dist2(call.ball_pos, box_center(call.players[j]))
                          >= match_radius * match_radius)
           => \E i \in 1..Len(call.players) :
                /\ call.pos = box_center(call.players[i])
                /\ \A j \in 1..Len(call.players) :
                       dist2(FrameCenter, call.pos)
                           <= dist2(FrameCenter, box_center(call.players[j]))
        /\ (/\ frame.width = 1280 /\ frame.height = 720
            /\ call.ball_pos = None
            /\ frame.boxes = << <<150, 250, 100, 220>>, <<650, 250, 100, 220>> >>)
           => call.pos = <<700, 360>>

\* a ball was found, every person is out of its reach, and the second person is returned
C7_Witness ==
    /\ Located /\ call.ball_pos # None
    /\ Len(call.players) = 2
    /\ \A j \in 1..2 : dist2(call.ball_pos, box_center(call.players[j]))
                           >= match_radius * match_radius
    /\ call.pos = box_center(call.players[2])
    /\ call.pos # box_center(call.players[1])

\* C8: a ball position returned is the centroid of a contour with
\* 50 <= area <= 50000, and when every contour is outside the band nothing
\* is returned.
C8_BallContourInBand ==
    Located =>
        /\ call.ball_pos # None =>
               \E i \in 1..Len(frame.contours) :
                   InBand(frame.contours[i]) /\ call.ball_pos = Centroid(frame.contours[i])
        /\ (\A i \in 1..Len(frame.contours) : ~InBand(frame.contours[i]))
               => call.ball_pos = None

\* contours on both sides of the lower limit, the in-band one located
C8_Witness ==
    /\ Located /\ call.ball_pos # None
    /\ \E i \in 1..Len(frame.contours) : frame.contours[i].area < min_area
    /\ \E i \in 1..Len(frame.contours) : frame.contours[i].area = max_area

\* C9: every person box returned has height >= 0.8 * width, with or without
\* the rescaling of a downscaled frame's boxes.
C9_PlayersTallerThanWide ==
    Located => \A i \in 1..Len(call.players) :
                   10 * call.players[i][4] >= 8 * call.players[i][3]

\* a downscaled frame: one box survives the filter after rescaling, one does not
C9_Witness ==
    /\ Located /\ frame.width > hog_max_width
    /\ Len(frame.boxes) = 2 /\ Len(call.players) = 1
    /\ call.players[1] # frame.boxes[1] /\ call.players[1] # frame.boxes[2]

\* C14: whenever a frame has a contour with area in [50, 50000] (and non-zero
\* zeroth moment), a ball position is returned and it is the centroid of the
\* largest such contour, also when a larger contour outside the band is
\* present.
C14_LargestInBandContour ==
    Located =>
        ((\E i \in 1..Len(frame.contours) :
              InBand(frame.contours[i]) /\ frame.contours[i].m00 # 0)
            => \E i \in 1..Len(frame.contours) :
                 /\ InBand(frame.contours[i])
                 /\ \A j \in 1..Len(frame.contours) :
                        InBand(frame.contours[j])
                            => frame.contours[j].area <= frame.contours[i].area
                 /\ call.ball_pos = Centroid(frame.contours[i]))

\* C23: the point returned is the center of the first box, in the order of the
\* detector's list, among the boxes at minimal distance to the ball (match
\* branch) or to the frame center (fallback branch).
C23_FirstBoxWinsTies ==
    (Located /\ call.pos # None) =>
        LET target == IF call.via = "ball" THEN call.ball_pos ELSE FrameCenter
            d(j) == dist2(target, box_center(call.players[j]))
        IN  \E i \in 1..Len(call.players) :
                /\ call.pos = box_center(call.players[i])
                /\ \A j \in 1..Len(call.players) : d(i) <= d(j)
                /\ \A j \in 1..(i - 1) : d(j) > d(i)

\* two persons with different centers at the same distance from the ball, the
\* first of them returned
C23_Witness ==
    /\ Located /\ call.via = "ball" /\ Len(call.players) = 2
    /\ box_center(call.players[1]) # box_center(call.players[2])
    /\ dist2(call.ball_pos, box_center(call.players[1]))
           = dist2(call.ball_pos, box_center(call.players[2]))
    /\ call.pos = box_center(call.players[1])

(***************************************************************************)
(* Smoother                                                                *)
(***************************************************************************)

\* C11: pushing (100,100), (102,101), (500,500) into an empty smoother, the
\* push of the outlier moves the smoothed output, against the output of the
\* push before, by less than 40% of the raw jump from (102,101) to (500,500)
\* on each axis.
C11_OutlierDamped ==
    raw_log = << <<100, 100>>, <<102, 101>>, <<500, 500>> >>
        => /\ 10 * Abs(positions[3][2] - positions[2][2]) < 4 * Abs(500 - 102)
           /\ 10 * Abs(positions[3][3] - positions[2][3]) < 4 * Abs(500 - 101)

(***************************************************************************)
(* Render path                                                             *)
(***************************************************************************)

\* C12: with scale = target height / source height and scaled width =
\* floor(source width * scale), make_frame's crop origin for the subject
\* (px, py) is x = floor(px * scale) - target width // 2 kept within
\* [0, scaled width - target width] and y = floor(py * scale) - target
\* height // 2 - floor(0.1 * target height) kept within [0, scaled height -
\* target height], 0 where the interval is empty; source 1280x720 and
\* subject (650,360) give scaled width 3413 and crop origin (1193, 0).
C12_RenderCropOrigin ==
    call.op = "make_frame" =>
        LET px == call.player[1]
            py == call.player[2]
            vx == (px * shorts_height) \div original_size[2] - shorts_width \div 2
            vy == (py * shorts_height) \div original_size[2] - shorts_height \div 2
                      - shorts_height \div 10
            hix == call.scaled_width - shorts_width
            hiy == call.scaled_height - shorts_height
        IN  /\ call.scaled_width = (original_size[1] * shorts_height) \div original_size[2]
            /\ call.crop_x = (IF vx < 0 \/ hix < 0 THEN 0 ELSE IF vx > hix THEN hix ELSE vx)
            /\ call.crop_y = (IF vy < 0 \/ hiy < 0 THEN 0 ELSE IF vy > hiy THEN hiy ELSE vy)
            /\ (original_size = <<1280, 720>> /\ call.player = <<650, 360>>)
                   => /\ call.scaled_width = 3413
                      /\ call.crop_x = 1193 /\ call.crop_y = 0

\* the frame rendered for the subject (650,360) of a 1280x720 source
C12_Witness ==
    /\ call.op = "make_frame"
    /\ original_size = <<1280, 720>> /\ call.player = <<650, 360>>
    /\ call.crop_x = 1193 /\ call.crop_y = 0

(***************************************************************************)
(* Tracker lifecycle.  The formulas below speak of one pass of the loop    *)
(* body: a step from a state in the loop that counts a frame.              *)
(***************************************************************************)
FrameProcessed == pc = "loop" /\ frame_num' = frame_num + 1

\* what find_player_with_ball returns for the frame just read
Found == find_player_with_ball(frame').pos

Observation == raw_log'[Len(raw_log')]

\* C15: on every frame where the detection runs and returns a point, a new
\* tracker is created (replacing any), a tracker exists afterwards, and the
\* raw position appended for the frame is the detected point.
C15_DetectionStartsTracker ==
    [][(FrameProcessed /\ detected' /\ Found # None)
          => /\ tracker' # None
             /\ tracker'.id = (IF tracker = None THEN 1 ELSE tracker.id + 1)
             /\ Observation = Found]_vars

\* C16 (as claimed): the box a tracker is initialized on has size 150x150 and
\* is centered on the detected point (px, py), box.x + 75 = px and
\* box.y + 75 = py, also for points closer than 75 px to the left or top edge.
C16_InitBoxCentered ==
    [][(FrameProcessed /\ detected' /\ Found # None)
          => /\ tracker'.bbox[3] = bbox_size /\ tracker'.bbox[4] = bbox_size
             /\ tracker'.bbox[1] + bbox_size \div 2 = Found[1]
             /\ tracker'.bbox[2] + bbox_size \div 2 = Found[2]]_vars

\* C16 (amended): the box a tracker is initialized on has size 150x150 and
\* origin (max(0, px - 75), max(0, py - 75)): it is centered on the detected
\* point on every axis where the point is at least 75 px from the left or top
\* edge, and starts at 0 on the others.
C16_InitBoxClampedAtEdge ==
    [][(FrameProcessed /\ detected' /\ Found # None)
          => /\ tracker'.bbox[3] = bbox_size /\ tracker'.bbox[4] = bbox_size
             /\ \A k \in 1..2 :
                    IF Found[k] >= bbox_size \div 2
                    THEN tracker'.bbox[k] + bbox_size \div 2 = Found[k]
                    ELSE tracker'.bbox[k] = 0]_vars

\* a tracker initialized on the point (50,360) detected at the left edge
C16_Witness ==
    /\ pc = "loop" /\ detected /\ tracker # None
    /\ find_player_with_ball(frame).pos = <<50, 360>>
    /\ tracker.bbox = <<0, 285, 150, 150>>

\* C17: on a frame where the detection runs with a tracker in use and finds
\* nothing, the tracker in use stays the same object, and the raw position
\* appended for the frame is the last known position, which is left as it was.
C17_EmptyRedetectionFallsBack ==
    [][(FrameProcessed /\ tracker # None /\ detected' /\ Found = None)
          => /\ tracker' # None
             /\ tracker'.id = tracker.id /\ tracker'.bbox = tracker.bbox
             /\ Observation = last_position
             /\ last_position' = last_position]_vars

\* C18: on a frame where the detection does not run and a tracker is in use,
\* the tracker is updated; on success the raw position appended is the center
\* of the updated box and last_position becomes that center; on failure the
\* raw position appended is the last known position, last_position is not
\* modified, and the same tracker object stays in use.
C18_TrackingFrame ==
    [][(FrameProcessed /\ tracker # None /\ ~detected')
          => /\ update' # None
             /\ update'[1] => /\ Observation = box_center(update'[2])
                              /\ last_position' = box_center(update'[2])
             /\ ~update'[1] => /\ Observation = last_position
                               /\ last_position' = last_position
                               /\ tracker' # None /\ tracker'.id = tracker.id]_vars

\* a frame between two detections on which the update failed, the position
\* reused being the box center of the successful update before it
C18_Witness ==
    /\ pc = "loop" /\ ~detected /\ tracker # None
    /\ update # None /\ ~update[1]
    /\ Len(raw_log) >= 2
    /\ raw_log[Len(raw_log) - 1] = <<575, 375>>
    /\ raw_log[Len(raw_log)] = <<575, 375>>
    /\ last_position = <<575, 375>>

\* a frame number on the redetection cadence
OnCadence == \E k \in 0..frame_num : frame_num = k * detection_interval

\* C19 (as claimed): when the tracker in use has reported failure, the tracker
\* in use after the next frame on the redetection cadence is a newly created
\* instance.
C19_FailedTrackerReplaced ==
    [][(FrameProcessed /\ tracker # None /\ tracker.failed /\ OnCadence)
          => (tracker' # None /\ tracker'.id # tracker.id)]_vars

\* C19 (amended): when the tracker in use has reported failure, the tracker in
\* use after the next frame on the redetection cadence is a newly created
\* instance exactly when the detection returns a point on that frame;
\* otherwise the stale tracker stays in use.
C19_FailedTrackerReplacedWhenFound ==
    [][(FrameProcessed /\ tracker # None /\ tracker.failed /\ OnCadence)
          => /\ tracker' # None
             /\ Found # None => tracker'.id = tracker.id + 1
             /\ Found = None => (tracker'.id = tracker.id /\ tracker'.failed)]_vars

\* the second tracker of a call at interval 1: the first one failed on frame 0
\* (the raw position of frame 0 is the detected point, not the box center of a
\* successful update) and frame 1 replaced it
C19_Witness ==
    /\ pc = "loop" /\ fps = 2 /\ Len(raw_log) = 2
    /\ raw_log[1] = <<650, 360>>
    /\ detected /\ tracker # None /\ tracker.id = 2

\* C20: detection_interval is floor(fps * 0.5), and on every frame read within
\* the duration find_player_with_ball runs exactly when no tracker is in use
\* or frame_num is a multiple of detection_interval.
C20_RedetectionCadence ==
    [][(pc = "loop" /\ frames_in_range' = frames_in_range + 1)
          => /\ 2 * detection_interval <= fps /\ fps < 2 * detection_interval + 2
             /\ detected' <=> (tracker = None \/ OnCadence)]_vars

(***************************************************************************)
(* Smoothed output                                                         *)
(***************************************************************************)
Axis(h, a) == [k \in 1..Len(h) |-> h[k][a]]

\* the sum of w(i) * xs[i] over i = 0..n-1 for the weights
\* w(i) = 0.5 + 0.5 * i / (n - 1), scaled by 2 * (n - 1)
RECURSIVE LinearSum(_, _, _)
LinearSum(xs, i, n) ==
    IF i > n - 1 THEN 0 ELSE ((n - 1) + i) * xs[i + 1] + LinearSum(xs, i + 1, n)

\* the sum of the weights, on the same scale
RECURSIVE LinearTotal(_, _)
LinearTotal(i, n) == IF i > n - 1 THEN 0 ELSE ((n - 1) + i) + LinearTotal(i + 1, n)

Unit(k, n) == [j \in 1..n |-> IF j = k THEN 1 ELSE 0]

Emitted == positions[Len(positions)]

\* C21: the position emitted for a frame is, per axis, the whole part of the
\* average of the history of n positions under the weights
\* 0.5 + 0.5 * i / (n - 1), i = 0 for the oldest and n - 1 for the newest
\* (one less where the double quotient falls short of a whole average); the
\* single position of a history of one is emitted as it is, and the newest
\* position carries the largest weight.
C21_LinearWeights ==
    (pc = "loop" /\ positions # <<>>) =>
        LET n == Len(position_history)
        IN  /\ 1 <= n /\ n <= history_size
            /\ \A a \in 1..2 :
                 LET xs == Axis(position_history, a)
                     e  == Emitted[a + 1]
                 IN  IF n = 1 THEN e = xs[1]
                     ELSE /\ LinearTotal(0, n) * e <= LinearSum(xs, 0, n)
                          /\ LinearSum(xs, 0, n) <= LinearTotal(0, n) * (e + 1)
            /\ \A k \in 1..(n - 1) :
                 weighted_sum(Unit(k, n), 1, n) < weighted_sum(Unit(n, n), 1, n)

\* a full history after an eviction, its oldest and newest positions apart
C21_Witness ==
    /\ pc = "loop" /\ Len(raw_log) = history_size + 1
    /\ Len(position_history) = history_size
    /\ position_history[1] = <<50, 360>>
    /\ position_history[history_size] = <<575, 375>>

\* C22: each coordinate emitted is the integer nearest to the exact weighted
\* average of that axis of the history: it differs from it by at most 1/2.
C22_RoundedToNearest ==
    positions # <<>> =>
        LET n == Len(position_history)
        IN  \A a \in 1..2 :
              LET xs == Axis(position_history, a)
                  num == IF n = 1 THEN xs[1] ELSE LinearSum(xs, 0, n)
                  den == IF n = 1 THEN 1 ELSE LinearTotal(0, n)
              IN  2 * Abs(den * Emitted[a + 1] - num) <= den

\* C24: as long as no detection has found a subject (no tracker has been
\* created), the loop does not raise, one position has been emitted for every
\* frame read within the duration, and every position emitted is the center
\* (width // 2, height // 2) of the frame.
C24_DegenerateClipCentered ==
    (pc # "idle" /\ tracker = None) =>
        /\ pc # "raised"
        /\ Len(positions) = frames_in_range
        /\ \A k \in 1..Len(positions) :
               positions[k][2] = 1280 \div 2 /\ positions[k][3] = 720 \div 2

\* C27: within one call, a tracker once created is never None again on a
\* later frame, last_position is set whenever a tracker exists, and no frame
\* processed with a tracker in use appends the frame center reached through
\* the fallback of lines 254-257.
C27_TrackingAbsorbing ==
    [][/\ tracker # None => tracker' # None
       /\ tracker' # None => last_position' # None
       /\ (FrameProcessed /\ (tracker # None \/ tracker' # None))
              => Observation # <<1280 \div 2, 720 \div 2>>]_vars

\* a tracker still in use after its update failed on a frame whose detection
\* ran and found nobody
C27_Witness ==
    /\ pc = "loop" /\ tracker # None /\ tracker.failed
    /\ detected /\ Len(raw_log) >= 2
    /\ find_player_with_ball(frame).pos = None
    /\ update # None /\ ~update[1]

\* C28: each coordinate emitted lies between the minimum and the maximum of
\* that coordinate over the positions in the history; a constant history
\* yields that constant.
C28_SmoothedWithinWindow ==
    (pc = "loop" /\ positions # <<>>) =>
        \A a \in 1..2 :
            /\ \E k \in 1..Len(position_history) : position_history[k][a] <= Emitted[a + 1]
            /\ \E k \in 1..Len(position_history) : Emitted[a + 1] <= position_history[k][a]

(***************************************************************************)
(* Highlight fusion                                                        *)
(***************************************************************************)
Fused == call.op = "fuse"

TimeOf(hl) == get(hl, "timestamp", 0)

\* C29: fuse returns at most 5 highlights in non-increasing score order, each
\* of them an entry of the list built before sorting; in that list (hence in
\* the output) every visual highlight is behind at most one entry and every
\* text highlight behind exactly one; a 'fused' entry is built from a text
\* and a visual highlight whose timestamps differ by at most
\* overlap_threshold, a 'text' entry from no visual highlight and a 'visual'
\* entry from no text highlight.
C29_FusePartition ==
    Fused =>
        LET text == args.text_highlights
            visual == args.visual_highlights
            built == call.unsorted
        IN  /\ Len(call.ret) <= 5
            /\ \A k \in 1..(Len(call.ret) - 1) : call.ret[k].score >= call.ret[k + 1].score
            /\ \A k \in 1..Len(call.ret) : \E m \in 1..Len(built) : call.ret[k] = built[m]
            /\ \A k, m \in 1..Len(call.ret) : call.ret[k] = call.ret[m] => k = m
            /\ \A j \in 1..Len(visual) :
                   Cardinality({k \in 1..Len(built) : built[k].visual_index = j}) <= 1
            /\ \A i \in 1..Len(text) :
                   Cardinality({k \in 1..Len(built) : built[k].text_index = i}) = 1
            /\ \A k \in 1..Len(built) :
                   /\ built[k].source \in {"fused", "text", "visual"}
                   /\ built[k].source = "fused" =>
                        /\ built[k].text_index \in 1..Len(text)
                        /\ built[k].visual_index \in 1..Len(visual)
                        /\ Abs(TimeOf(text[built[k].text_index])
                                   - TimeOf(visual[built[k].visual_index])) <= overlap_threshold
                   /\ built[k].source = "text" =>
                        built[k].text_index \in 1..Len(text) /\ built[k].visual_index = 0
                   /\ built[k].source = "visual" =>
                        built[k].visual_index \in 1..Len(visual) /\ built[k].text_index = 0

\* more than five entries were built and five returned; among those built a
\* fused one, an unmatched visual one, and a text one left unmatched although
\* its best visual match, within the threshold, went to an earlier text
\* highlight
C29_Witness ==
    /\ Fused /\ Len(call.unsorted) > 5 /\ Len(call.ret) = 5
    /\ \E k \in 1..Len(call.unsorted) : call.unsorted[k].source = "visual"
    /\ \E k, m \in 1..Len(call.unsorted) :
         /\ call.unsorted[k].source = "fused" /\ call.unsorted[m].source = "text"
         /\ call.unsorted[k].text_index < call.unsorted[m].text_index
         /\ best_match(args.text_highlights[call.unsorted[m].text_index],
                       args.visual_highlights, 1, <<0, 0>>)[1] = call.unsorted[k].visual_index

(***************************************************************************)
(* Caption overlay                                                         *)
(***************************************************************************)

\* C30: in every process_clip call, the output path handed to add_title and
\* to add_subtitles differs from the input path handed to the same call, and
\* when an overlay step wrote its output the path returned differs from
\* clip_path.
C30_OverlayNeverOverwritesInput ==
    call.op = "process_clip" =>
        /\ call.title_call # None => call.title_call.output_path # call.title_call.video_path
        /\ call.subs_call # None => call.subs_call.output_path # call.subs_call.video_path
        /\ (\/ (call.title_call # None /\ call.title_call.ok)
            \/ (call.subs_call # None /\ call.subs_call.ok))
               => call.ret # args.clip_path

====
